---- MODULE Spec2Model ----
(***************************************************************************)
(* Model of IFF-8-8_MaceinaA_L1a.go: one producer (the main goroutine,     *)
(* fillDataMonitor) feeds Moto records through the DataMonitor ring buffer *)
(* to WorkerCount worker goroutines, which rank each record and insert the *)
(* qualifying ones into the SortedResultMonitor.                           *)
(*                                                                         *)
(* Granularity: one step per lock acquisition, one step per critical       *)
(* section body (ending with the unlock or the Cond.Wait), one step per    *)
(* Cond.Signal, one step per iteration of the insertion loop.  Purely      *)
(* local computation (BestMotoRank, the Criteria test) is folded into the  *)
(* step that precedes it.                                                  *)
(***************************************************************************)
EXTENDS Integers, Sequences, FiniteSets, TLC

\* ---------------------------------------------------------------- bounds
MaxDataNumber == 4
MaxWorkerCount == 2

\* ------------------------------------------------------------- constants
Criteria == 26
CurrentYear == 2026
EndOfInput == "<EndOfInput>"
Main == 0

\* ------------------------------------------------------------ data model
Moto(man, date, dist) == [Manufacturer |-> man, Date |-> date, Distance |-> dist]
MotoRank(moto, rank) == [Moto |-> moto, Rank |-> rank]

ZeroMoto == Moto("", 0, 0)
ZeroMotoRank == MotoRank(ZeroMoto, 0)
Sentinel == Moto(EndOfInput, 0, 0)

\* int(x / d) of Go: the quotient truncated toward zero
TruncDiv(x, d) == IF x >= 0 THEN x \div d ELSE -((-x) \div d)

BestMotoRank(m) == CurrentYear - m.Date + TruncDiv(m.Distance, 1000)

\* variant: the consumer compares with another marker than the producer sends
IsEndOfInputTypo(m) == m.Manufacturer = "<EndOfFile>"
IsEndOfInput(m) == m.Manufacturer = EndOfInput

\* The records of the modelled input files, in file order.  Ranks under
\* CurrentYear: 10, 40, 10, 5, 10, 26.  BMW and Ducati share a rank and differ
\* in year; Ducati and Honda share rank and year and are different records;
\* Jawa is rejected by the Criteria and Kawasaki sits exactly on it.
Catalogue ==
    << Moto("BMW", 2016, 0),
       Moto("Jawa", 1986, 0),
       Moto("Ducati", 2020, 4000),
       Moto("Aprilia", 2021, 0),
       Moto("Honda", 2020, 4500),
       Moto("Kawasaki", 2000, 0) >>

\* An input file of n records: the catalogue read cyclically from record s.
Window(cat, s, n) == [k \in 1 .. n |-> cat[((s + k - 2) % Len(cat)) + 1]]

VARIABLES
    DataNumber,     \* number of records of the input
    WorkerCount,    \* number of worker goroutines
    motos,          \* the input array read by readData
    dataMotos,      \* DataMonitor.Motos, the ring
    In, Out,
    WorkCount, SpaceCount,
    InputLock, OutputLock,  \* set of the holder: {} when free
    Work, Space,    \* goroutines in the notify list of each sync.Cond
    resultMotos,    \* SortedResultMonitor.Motos
    Count,
    Lock,
    wg,             \* the WaitGroup counter
    pc,             \* position of every goroutine
    next,           \* fillDataMonitor: index of the record being added
    moto,           \* worker: the record removeItem returned
    i,              \* addItemSorted: the scan index of each worker
    report,         \* what writeData printed: <<Count, prefix>>, or <<>> before
    putLog,         \* history: records stored by addItem, in order
    takeLog,        \* history: non-sentinel records taken, in order of Out advancing
    seen,           \* history: number of times each worker was returned the sentinel
    returned,       \* history: number of removeItem calls that returned a non-sentinel record
    before          \* history: the prefix [0, Count) when addItemSorted last took the lock

vars == << DataNumber, WorkerCount, motos, dataMotos, In, Out, WorkCount,
           SpaceCount, InputLock, OutputLock, Work, Space, resultMotos, Count,
           Lock, wg, pc, next, moto, i, report, putLog, takeLog, seen,
           returned, before >>

BufferSize == DataNumber \div 2

Workers == 1 .. WorkerCount
Goroutines == {Main} \cup Workers

\* main: NewDataMonitor, NewSortedResultMonitor, wg.Add, readData, startWorkers
InitWith(cat, starts) ==
    /\ DataNumber \in 0 .. MaxDataNumber
    /\ WorkerCount \in 1 .. MaxWorkerCount
    /\ motos \in { Window(cat, s, DataNumber) : s \in starts }
    /\ dataMotos = [k \in 0 .. BufferSize - 1 |-> ZeroMoto]
    /\ In = 0
    /\ Out = 0
    /\ WorkCount = 0
    /\ SpaceCount = BufferSize
    /\ InputLock = {}
    /\ OutputLock = {}
    /\ Work = {}
    /\ Space = {}
    /\ resultMotos = [k \in 0 .. DataNumber - 1 |-> ZeroMotoRank]
    /\ Count = 0
    /\ Lock = {}
    /\ wg = WorkerCount
    /\ pc = [g \in Goroutines |-> IF g = Main THEN "addLock" ELSE "removeLock"]
    /\ next = 1
    /\ moto = [w \in Workers |-> ZeroMoto]
    /\ i = [w \in Workers |-> 0]
    /\ report = << >>
    /\ putLog = << >>
    /\ takeLog = << >>
    /\ seen = [w \in Workers |-> 0]
    /\ returned = 0
    /\ before = << >>

\* Every input file read from the catalogue
Init == InitWith(Catalogue, 1 .. Len(Catalogue))

\* The two input files behaviours are checked on under fairness: the one
\* starting at BMW (ranks 10, 40, 10, 5) and the one starting at Aprilia
\* (ranks 5, 10, 26, 10).
FairInit == InitWith(Catalogue, {1, 4})

\* ------------------------------------------------------------ sync.Cond
\* Cond.Signal: wakes one goroutine of the notify list, if there is any; the
\* woken goroutine returns from Cond.Wait by locking again, at `relock`.
\* `self` moves on to `after`.
Signal(cond, self, after, relock) ==
    IF cond = {}
    THEN pc' = [pc EXCEPT ![self] = after]
    ELSE \E t \in cond : pc' = [pc EXCEPT ![self] = after, ![t] = relock]

\* The notify list once Signal has woken the goroutine whose pc changed.
Notified(cond, self) == { t \in cond : t = self \/ pc'[t] = pc[t] }

\* ------------------------------------------------ fillDataMonitor / addItem
\* The record the producer is adding: motos[next], then the sentinel.
Item == IF next <= DataNumber THEN motos[next] ELSE Sentinel

\* (m.In + 1) % BufferSize and (m.Out + 1) % BufferSize
\* variant: the cursor is not advanced
AdvanceForgotten(cursor) == cursor
Advance(cursor) == (cursor + 1) % BufferSize

\* the loop conditions m.SpaceCount < 1 and m.WorkCount < 1
NoSpace == SpaceCount < 1
NoWork == WorkCount < 1

\* m.InputLock.Lock()
AddLock ==
    /\ pc[Main] = "addLock"
    /\ InputLock = {}
    /\ InputLock' = {Main}
    /\ pc' = [pc EXCEPT ![Main] = "addCheck"]
    /\ UNCHANGED << DataNumber, WorkerCount, motos, dataMotos, In, Out, WorkCount,
                    SpaceCount, OutputLock, Work, Space, resultMotos, Count,
                    Lock, wg, next, moto, i, report, putLog, takeLog, seen,
                    returned, before >>

\* for m.SpaceCount < 1 { m.Space.Wait() }: the wait releases InputLock
AddWait ==
    /\ pc[Main] = "addCheck"
    /\ NoSpace
    /\ Space' = Space \cup {Main}
    /\ InputLock' = {}
    /\ pc' = [pc EXCEPT ![Main] = "addWait"]
    /\ UNCHANGED << DataNumber, WorkerCount, motos, dataMotos, In, Out, WorkCount,
                    SpaceCount, OutputLock, Work, resultMotos, Count,
                    Lock, wg, next, moto, i, report, putLog, takeLog, seen,
                    returned, before >>

\* variant: the store without m.SpaceCount--
AddStoreForgotten ==
    /\ pc[Main] = "addCheck"
    /\ ~NoSpace
    /\ dataMotos' = [dataMotos EXCEPT ![In] = Item]
    /\ In' = Advance(In)
    /\ InputLock' = {}
    /\ putLog' = Append(putLog, Item)
    /\ pc' = [pc EXCEPT ![Main] = "addLockOut"]
    /\ UNCHANGED << DataNumber, WorkerCount, motos, Out, WorkCount, SpaceCount,
                    OutputLock, Work, Space, resultMotos, Count,
                    Lock, wg, next, moto, i, report, takeLog, seen,
                    returned, before >>

\* m.Motos[m.In] = item; m.In = (m.In + 1) % BufferSize; m.SpaceCount--; Unlock
AddStore ==
    /\ pc[Main] = "addCheck"
    /\ ~NoSpace
    /\ dataMotos' = [dataMotos EXCEPT ![In] = Item]
    /\ In' = Advance(In)
    /\ SpaceCount' = SpaceCount - 1
    /\ InputLock' = {}
    /\ putLog' = Append(putLog, Item)
    /\ pc' = [pc EXCEPT ![Main] = "addLockOut"]
    /\ UNCHANGED << DataNumber, WorkerCount, motos, Out, WorkCount,
                    OutputLock, Work, Space, resultMotos, Count,
                    Lock, wg, next, moto, i, report, takeLog, seen,
                    returned, before >>

\* m.OutputLock.Lock()
AddLockOut ==
    /\ pc[Main] = "addLockOut"
    /\ OutputLock = {}
    /\ OutputLock' = {Main}
    /\ pc' = [pc EXCEPT ![Main] = "addCount"]
    /\ UNCHANGED << DataNumber, WorkerCount, motos, dataMotos, In, Out, WorkCount,
                    SpaceCount, InputLock, Work, Space, resultMotos, Count,
                    Lock, wg, next, moto, i, report, putLog, takeLog, seen,
                    returned, before >>

\* m.WorkCount++; m.OutputLock.Unlock()
AddCount ==
    /\ pc[Main] = "addCount"
    /\ WorkCount' = WorkCount + 1
    /\ OutputLock' = {}
    /\ pc' = [pc EXCEPT ![Main] = "addSignal"]
    /\ UNCHANGED << DataNumber, WorkerCount, motos, dataMotos, In, Out,
                    SpaceCount, InputLock, Work, Space, resultMotos, Count,
                    Lock, wg, next, moto, i, report, putLog, takeLog, seen,
                    returned, before >>

\* m.Work.Signal(); addItem returns: the next record, or after the sentinel
\* fillDataMonitor returns and main reaches wg.Wait()
AddSignal ==
    /\ pc[Main] = "addSignal"
    /\ Signal(Work, Main, IF next <= DataNumber THEN "addLock" ELSE "wgWait",
              "removeLock")
    /\ Work' = Notified(Work, Main)
    /\ next' = next + 1
    /\ UNCHANGED << DataNumber, WorkerCount, motos, dataMotos, In, Out, WorkCount,
                    SpaceCount, InputLock, OutputLock, Space, resultMotos, Count,
                    Lock, wg, moto, i, report, putLog, takeLog, seen,
                    returned, before >>

\* --------------------------------------------------------- main, after fill
\* variant: main goes on without waiting for the workers
WgWaitNoJoin ==
    /\ pc[Main] = "wgWait"
    /\ pc' = [pc EXCEPT ![Main] = "writeData"]
    /\ UNCHANGED << DataNumber, WorkerCount, motos, dataMotos, In, Out, WorkCount,
                    SpaceCount, InputLock, OutputLock, Work, Space, resultMotos,
                    Count, Lock, wg, next, moto, i, report, putLog, takeLog, seen,
                    returned, before >>

\* wg.Wait() returns when the counter is zero
WgWait ==
    /\ pc[Main] = "wgWait"
    /\ wg = 0
    /\ pc' = [pc EXCEPT ![Main] = "writeData"]
    /\ UNCHANGED << DataNumber, WorkerCount, motos, dataMotos, In, Out, WorkCount,
                    SpaceCount, InputLock, OutputLock, Work, Space, resultMotos,
                    Count, Lock, wg, next, moto, i, report, putLog, takeLog, seen,
                    returned, before >>

\* The prefix [0, Count) of the result array, as a sequence
Prefix == [k \in 1 .. Count |-> resultMotos[k - 1]]

\* writeData: prints results.Motos[0 .. results.Count-1], without the lock
WriteData ==
    /\ pc[Main] = "writeData"
    /\ report' = << Count, Prefix >>
    /\ pc' = [pc EXCEPT ![Main] = "exit"]
    /\ UNCHANGED << DataNumber, WorkerCount, motos, dataMotos, In, Out, WorkCount,
                    SpaceCount, InputLock, OutputLock, Work, Space, resultMotos,
                    Count, Lock, wg, next, moto, i, putLog, takeLog, seen,
                    returned, before >>

\* ------------------------------------------------------ worker / removeItem
\* m.OutputLock.Lock()
RemoveLock(w) ==
    /\ pc[w] = "removeLock"
    /\ OutputLock = {}
    /\ OutputLock' = {w}
    /\ pc' = [pc EXCEPT ![w] = "removeCheck"]
    /\ UNCHANGED << DataNumber, WorkerCount, motos, dataMotos, In, Out, WorkCount,
                    SpaceCount, InputLock, Work, Space, resultMotos, Count,
                    Lock, wg, next, moto, i, report, putLog, takeLog, seen,
                    returned, before >>

\* for m.WorkCount < 1 { m.Work.Wait() }: the wait releases OutputLock
RemoveWait(w) ==
    /\ pc[w] = "removeCheck"
    /\ NoWork
    /\ Work' = Work \cup {w}
    /\ OutputLock' = {}
    /\ pc' = [pc EXCEPT ![w] = "removeWait"]
    /\ UNCHANGED << DataNumber, WorkerCount, motos, dataMotos, In, Out, WorkCount,
                    SpaceCount, InputLock, Space, resultMotos, Count,
                    Lock, wg, next, moto, i, report, putLog, takeLog, seen,
                    returned, before >>

\* variant: the sentinel is taken out of the ring like a record
RemoveSentinelTaken(w) ==
    /\ pc[w] = "removeCheck"
    /\ ~NoWork
    /\ IsEndOfInput(dataMotos[Out])
    /\ moto' = [moto EXCEPT ![w] = dataMotos[Out]]
    /\ Out' = Advance(Out)
    /\ WorkCount' = WorkCount - 1
    /\ OutputLock' = {}
    /\ pc' = [pc EXCEPT ![w] = "removeResignal"]
    /\ UNCHANGED << DataNumber, WorkerCount, motos, dataMotos, In,
                    SpaceCount, InputLock, Work, Space, resultMotos, Count,
                    Lock, wg, next, i, report, putLog, takeLog, seen,
                    returned, before >>

\* moto := m.Motos[m.Out]; it is the sentinel: Unlock, nothing else changes
RemoveSentinel(w) ==
    /\ pc[w] = "removeCheck"
    /\ ~NoWork
    /\ IsEndOfInput(dataMotos[Out])
    /\ moto' = [moto EXCEPT ![w] = dataMotos[Out]]
    /\ OutputLock' = {}
    /\ pc' = [pc EXCEPT ![w] = "removeResignal"]
    /\ UNCHANGED << DataNumber, WorkerCount, motos, dataMotos, In, Out, WorkCount,
                    SpaceCount, InputLock, Work, Space, resultMotos, Count,
                    Lock, wg, next, i, report, putLog, takeLog, seen,
                    returned, before >>

\* variant: a record is taken without lowering WorkCount
RemoveTakeUncounted(w) ==
    /\ pc[w] = "removeCheck"
    /\ ~NoWork
    /\ ~IsEndOfInput(dataMotos[Out])
    /\ moto' = [moto EXCEPT ![w] = dataMotos[Out]]
    /\ Out' = Advance(Out)
    /\ OutputLock' = {}
    /\ takeLog' = Append(takeLog, dataMotos[Out])
    /\ pc' = [pc EXCEPT ![w] = "removeLockIn"]
    /\ UNCHANGED << DataNumber, WorkerCount, motos, dataMotos, In, WorkCount,
                    SpaceCount, InputLock, Work, Space, resultMotos, Count,
                    Lock, wg, next, i, report, putLog, seen,
                    returned, before >>

\* variant: a record is taken and OutputLock is kept
RemoveTakeHoldingLock(w) ==
    /\ pc[w] = "removeCheck"
    /\ ~NoWork
    /\ ~IsEndOfInput(dataMotos[Out])
    /\ moto' = [moto EXCEPT ![w] = dataMotos[Out]]
    /\ Out' = Advance(Out)
    /\ WorkCount' = WorkCount - 1
    /\ takeLog' = Append(takeLog, dataMotos[Out])
    /\ pc' = [pc EXCEPT ![w] = "removeLockIn"]
    /\ UNCHANGED << DataNumber, WorkerCount, motos, dataMotos, In,
                    SpaceCount, InputLock, OutputLock, Work, Space, resultMotos,
                    Count, Lock, wg, next, i, report, putLog, seen,
                    returned, before >>

\* moto := m.Motos[m.Out]; m.Out = (m.Out + 1) % BufferSize; m.WorkCount--; Unlock
RemoveTake(w) ==
    /\ pc[w] = "removeCheck"
    /\ ~NoWork
    /\ ~IsEndOfInput(dataMotos[Out])
    /\ moto' = [moto EXCEPT ![w] = dataMotos[Out]]
    /\ Out' = Advance(Out)
    /\ WorkCount' = WorkCount - 1
    /\ OutputLock' = {}
    /\ takeLog' = Append(takeLog, dataMotos[Out])
    /\ pc' = [pc EXCEPT ![w] = "removeLockIn"]
    /\ UNCHANGED << DataNumber, WorkerCount, motos, dataMotos, In,
                    SpaceCount, InputLock, Work, Space, resultMotos, Count,
                    Lock, wg, next, i, report, putLog, seen,
                    returned, before >>

\* variant: the sentinel is returned without m.Work.Signal()
RemoveResignalNoSignal(w) ==
    /\ pc[w] = "removeResignal"
    /\ pc' = [pc EXCEPT ![w] = "wgDone"]
    /\ seen' = [seen EXCEPT ![w] = seen[w] + 1]
    /\ UNCHANGED << DataNumber, WorkerCount, motos, dataMotos, In, Out, WorkCount,
                    SpaceCount, InputLock, OutputLock, Work, Space, resultMotos,
                    Count, Lock, wg, next, moto, i, report, putLog, takeLog,
                    returned, before >>

\* m.Work.Signal(); return moto: the worker breaks out of its loop
RemoveResignal(w) ==
    /\ pc[w] = "removeResignal"
    /\ Signal(Work, w, "wgDone", "removeLock")
    /\ Work' = Notified(Work, w)
    /\ seen' = [seen EXCEPT ![w] = seen[w] + 1]
    /\ UNCHANGED << DataNumber, WorkerCount, motos, dataMotos, In, Out, WorkCount,
                    SpaceCount, InputLock, OutputLock, Space, resultMotos, Count,
                    Lock, wg, next, moto, i, report, putLog, takeLog,
                    returned, before >>

\* defer wg.Done()
WgDone(w) ==
    /\ pc[w] = "wgDone"
    /\ wg' = wg - 1
    /\ moto' = [moto EXCEPT ![w] = ZeroMoto]
    /\ pc' = [pc EXCEPT ![w] = "exit"]
    /\ UNCHANGED << DataNumber, WorkerCount, motos, dataMotos, In, Out, WorkCount,
                    SpaceCount, InputLock, OutputLock, Work, Space, resultMotos,
                    Count, Lock, next, i, report, putLog, takeLog, seen,
                    returned, before >>

\* m.InputLock.Lock()
RemoveLockIn(w) ==
    /\ pc[w] = "removeLockIn"
    /\ InputLock = {}
    /\ InputLock' = {w}
    /\ pc' = [pc EXCEPT ![w] = "removeCount"]
    /\ UNCHANGED << DataNumber, WorkerCount, motos, dataMotos, In, Out, WorkCount,
                    SpaceCount, OutputLock, Work, Space, resultMotos, Count,
                    Lock, wg, next, moto, i, report, putLog, takeLog, seen,
                    returned, before >>

\* variant: the critical section without m.SpaceCount++
RemoveCountForgotten(w) ==
    /\ pc[w] = "removeCount"
    /\ InputLock' = {}
    /\ pc' = [pc EXCEPT ![w] = "removeSignal"]
    /\ UNCHANGED << DataNumber, WorkerCount, motos, dataMotos, In, Out, WorkCount,
                    SpaceCount, OutputLock, Work, Space, resultMotos, Count,
                    Lock, wg, next, moto, i, report, putLog, takeLog, seen,
                    returned, before >>

\* variant: the free count is raised by two
RemoveCountTwice(w) ==
    /\ pc[w] = "removeCount"
    /\ SpaceCount' = SpaceCount + 2
    /\ InputLock' = {}
    /\ pc' = [pc EXCEPT ![w] = "removeSignal"]
    /\ UNCHANGED << DataNumber, WorkerCount, motos, dataMotos, In, Out, WorkCount,
                    OutputLock, Work, Space, resultMotos, Count,
                    Lock, wg, next, moto, i, report, putLog, takeLog, seen,
                    returned, before >>

\* m.SpaceCount++; m.InputLock.Unlock()
RemoveCount(w) ==
    /\ pc[w] = "removeCount"
    /\ SpaceCount' = SpaceCount + 1
    /\ InputLock' = {}
    /\ pc' = [pc EXCEPT ![w] = "removeSignal"]
    /\ UNCHANGED << DataNumber, WorkerCount, motos, dataMotos, In, Out, WorkCount,
                    OutputLock, Work, Space, resultMotos, Count,
                    Lock, wg, next, moto, i, report, putLog, takeLog, seen,
                    returned, before >>

\* variant: motoRank <= Criteria
QualifiesInclusive(m) == BestMotoRank(m) <= Criteria

\* worker: motoRank < Criteria
Qualifies(m) == BestMotoRank(m) < Criteria

\* variant: removeItem returns without m.Space.Signal()
RemoveSignalNoSignal(w) ==
    /\ pc[w] = "removeSignal"
    /\ pc' = [pc EXCEPT ![w] = IF Qualifies(moto[w]) THEN "sortedLock" ELSE "removeLock"]
    /\ moto' = [moto EXCEPT ![w] = IF Qualifies(moto[w]) THEN moto[w] ELSE ZeroMoto]
    /\ returned' = returned + 1
    /\ UNCHANGED << DataNumber, WorkerCount, motos, dataMotos, In, Out, WorkCount,
                    SpaceCount, InputLock, OutputLock, Work, Space, resultMotos,
                    Count, Lock, wg, next, i, report, putLog, takeLog, seen,
                    before >>

\* m.Space.Signal(); return moto.  The worker ranks the record and either
\* goes on to addItemSorted or starts its next iteration.
RemoveSignal(w) ==
    /\ pc[w] = "removeSignal"
    /\ Signal(Space, w, IF Qualifies(moto[w]) THEN "sortedLock" ELSE "removeLock",
              "addLock")
    /\ Space' = Notified(Space, w)
    /\ moto' = [moto EXCEPT ![w] = IF Qualifies(moto[w]) THEN moto[w] ELSE ZeroMoto]
    /\ returned' = returned + 1
    /\ UNCHANGED << DataNumber, WorkerCount, motos, dataMotos, In, Out, WorkCount,
                    SpaceCount, InputLock, OutputLock, Work, resultMotos, Count,
                    Lock, wg, next, i, report, putLog, takeLog, seen,
                    before >>

\* ------------------------------------------------------------ addItemSorted
\* variant: the loop condition without the tie-break on the year
ShiftsRankOnly(e, x) == e.Rank > x.Rank

\* variant: ties shifted while the entry is the later year
ShiftsYearAscending(e, x) ==
    \/ e.Rank > x.Rank
    \/ (e.Rank = x.Rank /\ e.Moto.Date > x.Moto.Date)

\* variant: entries equal in rank and year are shifted too
ShiftsTieInclusive(e, x) ==
    \/ e.Rank > x.Rank
    \/ (e.Rank = x.Rank /\ e.Moto.Date <= x.Moto.Date)

\* The loop condition on the entry e at index i and the new item x
Shifts(e, x) ==
    \/ e.Rank > x.Rank
    \/ (e.Rank = x.Rank /\ e.Moto.Date < x.Moto.Date)

\* variant: addItemSorted entered without waiting for the lock
SortedLockNoMutex(w) ==
    /\ pc[w] = "sortedLock"
    /\ Lock' = {w}
    /\ i' = [i EXCEPT ![w] = Count - 1]
    /\ before' = Prefix
    /\ pc' = [pc EXCEPT ![w] = "sortedLoop"]
    /\ UNCHANGED << DataNumber, WorkerCount, motos, dataMotos, In, Out, WorkCount,
                    SpaceCount, InputLock, OutputLock, Work, Space, resultMotos,
                    Count, wg, next, moto, report, putLog, takeLog, seen,
                    returned >>

\* m.Lock.Lock(); i := m.Count - 1
SortedLock(w) ==
    /\ pc[w] = "sortedLock"
    /\ Lock = {}
    /\ Lock' = {w}
    /\ i' = [i EXCEPT ![w] = Count - 1]
    /\ before' = Prefix
    /\ pc' = [pc EXCEPT ![w] = "sortedLoop"]
    /\ UNCHANGED << DataNumber, WorkerCount, motos, dataMotos, In, Out, WorkCount,
                    SpaceCount, InputLock, OutputLock, Work, Space, resultMotos,
                    Count, wg, next, moto, report, putLog, takeLog, seen,
                    returned >>

\* one iteration: m.Motos[i+1] = m.Motos[i]; i--
SortedShift(w) ==
    /\ pc[w] = "sortedLoop"
    /\ i[w] >= 0
    /\ Shifts(resultMotos[i[w]], MotoRank(moto[w], BestMotoRank(moto[w])))
    /\ resultMotos' = [resultMotos EXCEPT ![i[w] + 1] = resultMotos[i[w]]]
    /\ i' = [i EXCEPT ![w] = i[w] - 1]
    /\ UNCHANGED << DataNumber, WorkerCount, motos, dataMotos, In, Out, WorkCount,
                    SpaceCount, InputLock, OutputLock, Work, Space, Count,
                    Lock, wg, pc, next, moto, report, putLog, takeLog, seen,
                    returned, before >>

\* loop exit: m.Motos[i+1] = moto; m.Count++; m.Lock.Unlock(); next iteration
SortedPlace(w) ==
    /\ pc[w] = "sortedLoop"
    /\ ~(/\ i[w] >= 0
         /\ Shifts(resultMotos[i[w]], MotoRank(moto[w], BestMotoRank(moto[w]))))
    /\ resultMotos' = [resultMotos EXCEPT
                         ![i[w] + 1] = MotoRank(moto[w], BestMotoRank(moto[w]))]
    /\ Count' = Count + 1
    /\ Lock' = {}
    /\ i' = [i EXCEPT ![w] = 0]
    /\ moto' = [moto EXCEPT ![w] = ZeroMoto]
    /\ pc' = [pc EXCEPT ![w] = "removeLock"]
    /\ UNCHANGED << DataNumber, WorkerCount, motos, dataMotos, In, Out, WorkCount,
                    SpaceCount, InputLock, OutputLock, Work, Space,
                    wg, next, report, putLog, takeLog, seen,
                    returned, before >>

\* ------------------------------------------------------------ specification
Producer ==
    \/ AddLock
    \/ AddWait
    \/ AddStore
    \/ AddLockOut
    \/ AddCount
    \/ AddSignal
    \/ WgWait
    \/ WriteData

Worker(w) ==
    \/ RemoveLock(w)
    \/ RemoveWait(w)
    \/ RemoveSentinel(w)
    \/ RemoveTake(w)
    \/ RemoveResignal(w)
    \/ WgDone(w)
    \/ RemoveLockIn(w)
    \/ RemoveCount(w)
    \/ RemoveSignal(w)
    \/ SortedLock(w)
    \/ SortedShift(w)
    \/ SortedPlace(w)

Next == Producer \/ \E w \in Workers : Worker(w)

Spec == Init /\ [][Next]_vars

\* The Go scheduler runs some runnable goroutine: the program does not stop
\* while a step is possible.
FairSpec == FairInit /\ [][Next]_vars /\ WF_vars(Next)

\* ================================================================ properties
IsPrefix(a, b) ==
    /\ Len(a) <= Len(b)
    /\ \A k \in 1 .. Len(a) : a[k] = b[k]

NonSentinel(log) == SelectSeq(log, LAMBDA m : m.Manufacturer # EndOfInput)

AllWorkersExited == \A w \in Workers : pc[w] = "exit"

\* The producer has stored every record and then the sentinel.
SentinelEnqueued == Len(putLog) = DataNumber + 1

\* ------------------------------------------------------------------- C1
\* C1: no loss, no duplication.  Never more records are returned than taken,
\* nor more taken than stored; once every worker has terminated the records
\* taken are exactly the input records, each once, and the number of
\* removeItem calls that returned a record equals the number of addItem calls
\* made with a record.
C1_NoLossNoDuplication ==
    /\ returned <= Len(takeLog)
    /\ Len(takeLog) <= Len(NonSentinel(putLog))
    /\ AllWorkersExited =>
         /\ takeLog = motos
         /\ NonSentinel(putLog) = motos
         /\ returned = Len(NonSentinel(putLog))

C1_Witness ==
    /\ AllWorkersExited
    /\ WorkerCount >= 2
    /\ returned >= 4

\* ------------------------------------------------------------------- C2
\* A worker that was returned the sentinel has left its loop: it is at
\* wg.Done() or has exited, and it was returned the sentinel once.
SentinelOnce ==
    \A w \in Workers :
        /\ seen[w] <= 1
        /\ seen[w] = 1 <=> pc[w] \in {"wgDone", "exit"}

\* C2: every worker is returned the sentinel exactly once (never twice, and
\* eventually once, when the sentinel has been enqueued), and a worker that
\* was returned it makes no further removeItem call.
C2_SentinelExactlyOnce ==
    /\ []SentinelOnce
    /\ [][\A w \in Workers : seen[w] = 1 =>
             /\ pc'[w] \in {"wgDone", "exit"}
             /\ seen'[w] = 1
             /\ moto'[w] \in {Sentinel, ZeroMoto}]_vars
    /\ SentinelEnqueued ~> (\A w \in Workers : seen[w] = 1)

C2_Witness ==
    /\ WorkerCount >= 2
    /\ \A w \in Workers : seen[w] = 1
    /\ Len(takeLog) >= 2

\* ------------------------------------------------------------------- C3
\* C3: once the sentinel is enqueued, every worker eventually terminates and
\* wg.Wait() returns: no worker stays in Work.Wait() forever.
C3_PoolTerminates ==
    SentinelEnqueued ~>
        (AllWorkersExited /\ pc[Main] \in {"writeData", "exit"})

\* the sentinel is enqueued while one worker is blocked on Work, and another
\* is busy inserting
C3_Witness ==
    /\ SentinelEnqueued
    /\ \E w \in Workers : pc[w] = "removeWait"
    /\ \E w \in Workers : pc[w] = "sortedLoop"

\* ------------------------------------------------------------------- C4
Sorted(list) ==
    \A k \in 1 .. Len(list) - 1 :
        \/ list[k].Rank < list[k + 1].Rank
        \/ /\ list[k].Rank = list[k + 1].Rank
           /\ list[k].Moto.Date >= list[k + 1].Moto.Date

\* C4: whenever the result lock is free, the prefix [0, Count) is ordered by
\* rank ascending, ties by year descending.
C4_PrefixSorted == Lock = {} => Sorted(Prefix)

\* three entries, two of them of equal rank, inserted by two workers
C4_Witness ==
    /\ Lock = {}
    /\ Count >= 3
    /\ WorkerCount >= 2
    /\ \E k \in 1 .. Count - 1 :
          /\ Prefix[k].Rank = Prefix[k + 1].Rank
          /\ Prefix[k].Moto.Date > Prefix[k + 1].Moto.Date

\* ------------------------------------------------------------------- C5
QualifyingCount ==
    Cardinality({ k \in 1 .. DataNumber :
                    CurrentYear - motos[k].Date + TruncDiv(motos[k].Distance, 1000)
                        < Criteria })

\* C5: when all workers have terminated, Count is the number of input
\* records whose rank is below Criteria.
C5_CountIsQualifying == AllWorkersExited => Count = QualifyingCount

\* an input with a record on the threshold, one above it and two below
C5_Witness ==
    /\ AllWorkersExited
    /\ WorkerCount >= 2
    /\ Count = 2
    /\ DataNumber = 4
    /\ \E k \in 1 .. DataNumber : BestMotoRank(motos[k]) = Criteria

\* ------------------------------------------------------------------- C6
\* addItemSorted as a function of the prefix: x goes right after the last
\* entry that the loop does not shift.
InsertSorted(list, x) ==
    LET stay == { k \in 1 .. Len(list) : ~Shifts(list[k], x) }
        p == IF stay = {} THEN 0 ELSE CHOOSE k \in stay : \A j \in stay : j <= k
    IN  SubSeq(list, 1, p) \o << x >> \o SubSeq(list, p + 1, Len(list))

\* The result list of a single worker: the qualifying records inserted in
\* input order.
RECURSIVE InsertAll(_, _)
InsertAll(list, input) ==
    IF input = << >> THEN list
    ELSE InsertAll(IF Qualifies(Head(input))
                   THEN InsertSorted(list, MotoRank(Head(input), BestMotoRank(Head(input))))
                   ELSE list,
                   Tail(input))

SequentialResult == InsertAll(<< >>, motos)

Keys(list) == [k \in 1 .. Len(list) |-> << list[k].Rank, list[k].Moto.Date >>]

Occurrences(list, x) == Cardinality({ k \in 1 .. Len(list) : list[k] = x })

\* No two entries share both rank and year.
NoFullTie(list) ==
    \A j, k \in 1 .. Len(list) : Keys(list)[j] = Keys(list)[k] => j = k

\* C6 as stated: the final list is the same list of records for every worker
\* count and schedule, namely the one a single worker produces.
C6_FinalListDeterministic == AllWorkersExited => Prefix = SequentialResult

\* C6 as amended: the final list holds the same records and the same
\* sequence of (rank, year) keys for every worker count and schedule, and
\* is the same list when no two qualifying records share rank and year.
C6_FinalKeysDeterministic ==
    AllWorkersExited =>
        /\ Keys(Prefix) = Keys(SequentialResult)
        /\ \A k \in 1 .. Len(SequentialResult) :
              Occurrences(Prefix, SequentialResult[k])
                  = Occurrences(SequentialResult, SequentialResult[k])
        /\ NoFullTie(SequentialResult) => Prefix = SequentialResult

\* two records of equal rank and year ended in the opposite order to the
\* single worker's
C6_Witness ==
    /\ AllWorkersExited
    /\ Prefix # SequentialResult
    /\ Count >= 2

\* ------------------------------------------------------------------- C7
\* C7: the records taken, in the order Out advanced, are at every moment a
\* prefix of the records in the order they were enqueued.
C7_FifoOrder == IsPrefix(takeLog, NonSentinel(putLog))

\* the ring has wrapped around and two workers have taken records
C7_Witness ==
    /\ BufferSize >= 2
    /\ Len(takeLog) > BufferSize
    /\ \E v, w \in Workers : v # w /\ pc[v] = "removeLockIn" /\ pc[w] = "removeSignal"

\* ------------------------------------------------------------------- C8
\* addItem between its two critical sections, removeItem between its two
InFlight ==
    \/ pc[Main] \in {"addLockOut", "addCount"}
    \/ \E w \in Workers : pc[w] \in {"removeLockIn", "removeCount"}

\* C8: both counters stay within [0, BufferSize], their sum never exceeds
\* BufferSize, and it equals BufferSize when no call is in flight.
C8_CounterInvariant ==
    /\ 0 <= WorkCount /\ WorkCount <= BufferSize
    /\ 0 <= SpaceCount /\ SpaceCount <= BufferSize
    /\ WorkCount + SpaceCount <= BufferSize
    /\ ~InFlight => WorkCount + SpaceCount = BufferSize

\* nothing in flight after the sentinel was enqueued and records were taken
C8_Witness ==
    /\ ~InFlight
    /\ SentinelEnqueued
    /\ pc[Main] = "wgWait"
    /\ WorkCount = 1
    /\ BufferSize >= 2
    /\ Len(takeLog) = DataNumber

\* ------------------------------------------------------------------- C9
\* C9: once wg.Wait() has returned every worker has exited, so no
\* addItemSorted call is in progress or can start, and what writeData read
\* is the final Count and prefix.
C9_ReportAfterJoin ==
    /\ pc[Main] \in {"writeData", "exit"} =>
          /\ AllWorkersExited
          /\ Lock = {}
    /\ report # << >> => report = << Count, Prefix >>

C9_Witness ==
    /\ pc[Main] = "exit"
    /\ WorkerCount >= 2
    /\ report[1] >= 2

\* ------------------------------------------------------------------ C10
\* C10: with an empty input the producer enqueues only the sentinel, the
\* program does not stop before every goroutine has finished, and Count is 0.
C10_EmptyInputTerminates ==
    (DataNumber = 0 /\ ~ENABLED Next) =>
        /\ pc[Main] = "exit"
        /\ AllWorkersExited
        /\ putLog = << Sentinel >>
        /\ Count = 0


\* ------------------------------------------------------------------ C11
\* a ring of one slot drained by a single worker
Degenerate == BufferSize = 1 /\ WorkerCount = 1

\* C11: with capacity 1 and one worker, the sentinel is returned only after
\* every record was taken, in input order, and under fair scheduling the
\* producer and the worker both terminate with every record delivered.
C11_DegenerateDelivers ==
    /\ [](Degenerate => IsPrefix(takeLog, motos))
    /\ [](Degenerate /\ (\E w \in Workers : seen[w] = 1 \/ pc[w] = "removeResignal")
            => takeLog = motos)
    /\ Degenerate ~>
          /\ pc[Main] = "exit"
          /\ AllWorkersExited
          /\ takeLog = motos
          /\ returned = DataNumber
          /\ \A w \in Workers : seen[w] = 1

\* three records went through the single slot and everything has terminated
C11_Witness ==
    /\ Degenerate
    /\ DataNumber = 3
    /\ pc[Main] = "exit"
    /\ AllWorkersExited
    /\ returned = 3


\* ------------------------------------------------------------------ C12
\* the input records below the Criteria, each paired with its rank
Scored(m) == MotoRank(m, CurrentYear - m.Date + TruncDiv(m.Distance, 1000))

QualifyingRecords ==
    { Scored(motos[k]) : k \in { j \in 1 .. DataNumber : Scored(motos[j]).Rank < Criteria } }

\* the input of ranks 10, 40, 10, 5
ScenarioInput ==
    << Moto("BMW", 2016, 0), Moto("Jawa", 1986, 0),
       Moto("Ducati", 2020, 4000), Moto("Aprilia", 2021, 0) >>

\* rank 5, then rank 10 of the later year, then rank 10 of the earlier year
ScenarioResult ==
    << MotoRank(Moto("Aprilia", 2021, 0), 5),
       MotoRank(Moto("Ducati", 2020, 4000), 10),
       MotoRank(Moto("BMW", 2016, 0), 10) >>

\* C12: after all workers have joined, the prefix holds exactly the input
\* records of rank below Criteria, each once and with its rank, ordered by
\* rank ascending and year descending; the input of ranks 10, 40, 10, 5
\* gives rank 5, rank 10 (later year), rank 10 (earlier year).
C12_FinalContent ==
    pc[Main] \in {"writeData", "exit"} =>
        /\ { Prefix[k] : k \in 1 .. Count } = QualifyingRecords
        /\ \A j, k \in 1 .. Count : Prefix[j] = Prefix[k] => j = k
        /\ \A k \in 1 .. Count - 1 :
              \/ Prefix[k].Rank < Prefix[k + 1].Rank
              \/ /\ Prefix[k].Rank = Prefix[k + 1].Rank
                 /\ Prefix[k].Moto.Date >= Prefix[k + 1].Moto.Date
        /\ motos = ScenarioInput => Prefix = ScenarioResult

\* the scenario has run to the end with two workers
C12_Witness ==
    /\ pc[Main] = "exit"
    /\ WorkerCount >= 2
    /\ motos = ScenarioInput
    /\ Prefix = ScenarioResult


\* ------------------------------------------------------------------ C13
\* positions of a worker whose removeItem call took a record that the worker
\* is going to rank, and positions inside addItemSorted
TakenToRank == {"removeLockIn", "removeCount", "removeSignal"}
InAddItemSorted == {"sortedLock", "sortedLoop"}

\* C13: the sentinel is never ranked and never stored: no entry of the result
\* array is the sentinel, and no worker holds the sentinel on its way to
\* BestMotoRank or inside addItemSorted.
C13_SentinelNeverStored ==
    /\ \A k \in 0 .. DataNumber - 1 : resultMotos[k].Moto.Manufacturer # EndOfInput
    /\ \A w \in Workers :
          pc[w] \in TakenToRank \cup InAddItemSorted
              => moto[w].Manufacturer # EndOfInput

\* one worker was handed the sentinel while another is still inserting
C13_Witness ==
    /\ \E w \in Workers : pc[w] = "removeResignal" /\ moto[w] = Sentinel
    /\ \E w \in Workers : pc[w] = "sortedLoop"
    /\ Count >= 1


\* ------------------------------------------------------------------ C14
\* slots holding an item (record or sentinel) that was stored and not taken
LiveSlots ==
    { (Out + k) % BufferSize : k \in 0 .. Len(putLog) - Len(takeLog) - 1 }

\* the producer holds InputLock and has found space: its next step stores
AboutToStore == pc[Main] = "addCheck" /\ SpaceCount >= 1

\* C14 as stated: the slot addItem writes holds no record that was enqueued
\* and not yet returned by a removeItem call, nor the sentinel.
C14_SlotNotUnreturned ==
    AboutToStore =>
        /\ In \notin LiveSlots
        /\ ~ \E w \in Workers : pc[w] \in TakenToRank /\ dataMotos[In] = moto[w]

\* C14 as amended: the ring changes only when SpaceCount >= 1 and only at
\* slot In, and that slot holds no item that is still to be taken (a record
\* not yet copied out under OutputLock, or the sentinel): In and Out never
\* address the same live slot.
C14_SlotNotLive ==
    /\ [](AboutToStore => In \notin LiveSlots)
    /\ [][dataMotos' # dataMotos =>
            /\ SpaceCount >= 1
            /\ In \notin LiveSlots
            /\ \A k \in 0 .. BufferSize - 1 : k # In => dataMotos'[k] = dataMotos[k]]_vars

\* the producer is about to overwrite a slot whose record a worker has taken
\* but whose removeItem call has not returned, while another slot is live
C14_Witness ==
    /\ AboutToStore
    /\ BufferSize >= 2
    /\ LiveSlots # {}
    /\ \E w \in Workers : pc[w] \in TakenToRank /\ dataMotos[In] = moto[w]


\* ------------------------------------------------------------------ C15
\* worker w is inside a removeItem call that found the sentinel at index Out
SentinelCall(w) ==
    \/ pc[w] = "removeCheck" /\ pc'[w] = "removeResignal"
    \/ pc[w] = "removeResignal" /\ pc'[w] # "removeResignal"

\* the producer has stored the sentinel and raised WorkCount for it
SentinelCounted ==
    /\ SentinelEnqueued
    /\ pc[Main] \notin {"addLockOut", "addCount"}

\* the slot the sentinel is stored in: N records precede it in the ring
SentinelSlot == DataNumber % BufferSize

\* C15: a removeItem call that finds the sentinel leaves Out, In, WorkCount,
\* SpaceCount and the ring unchanged and only signals Work once (it wakes at
\* most one waiter, exactly one if there is any, and does not touch Space);
\* once the sentinel has been counted, WorkCount >= 1 holds ever after, and
\* once stored the sentinel stays in its slot.
C15_SentinelFrame ==
    /\ [][\A w \in Workers : SentinelCall(w) =>
            /\ UNCHANGED << Out, In, WorkCount, SpaceCount, dataMotos, Space >>
            /\ Work' \subseteq Work
            /\ Cardinality(Work \ Work') = (IF pc[w] = "removeResignal" /\ Work # {} THEN 1 ELSE 0)]_vars
    /\ [](SentinelCounted => WorkCount >= 1)
    /\ [](SentinelEnqueued => dataMotos[SentinelSlot] = Sentinel)
    /\ [][SentinelCounted => SentinelCounted']_vars

\* a sentinel call has woken a waiting worker and a second worker has seen
\* the sentinel too, with the ring state as the producer left it
C15_Witness ==
    /\ SentinelCounted
    /\ DataNumber >= 2
    /\ \E w \in Workers : seen[w] = 1
    /\ \E w \in Workers : pc[w] = "removeResignal" /\ seen[w] = 0
    /\ WorkCount = 1


\* ------------------------------------------------------------------ C16
\* worker w completes an addItemSorted call in this step
Places(w) == pc[w] = "sortedLoop" /\ pc'[w] = "removeLock"

\* the entry e is one the item x goes after
StaysBefore(e, x) ==
    /\ ~(e.Rank > x.Rank)
    /\ ~(e.Rank = x.Rank /\ e.Moto.Date < x.Moto.Date)

\* number of entries of prefix s up to the last one x goes after: the
\* 0-based position x is written at
Position(s, x) ==
    IF \E j \in 1 .. Len(s) : StaysBefore(s[j], x)
    THEN CHOOSE j \in 1 .. Len(s) :
            /\ StaysBefore(s[j], x)
            /\ \A l \in j + 1 .. Len(s) : ~StaysBefore(s[l], x)
    ELSE 0

\* C16: a call of addItemSorted with item x on the sorted prefix `before`
\* of length k writes x right after the last entry that x does not go in
\* front of (at 0 if none), leaves the entries before that position alone,
\* moves the others one index right in the same order, and makes Count k+1;
\* x ends after every entry equal to it in rank and year.
C16_Placement ==
    [][\A w \in Workers : Places(w) =>
         LET x == MotoRank(moto[w], CurrentYear - moto[w].Date
                                      + TruncDiv(moto[w].Distance, 1000))
             k == Len(before)
             p == Position(before, x)
         IN  /\ Sorted(before)
             /\ Count' = k + 1
             /\ resultMotos'[p] = x
             /\ \A j \in 0 .. p - 1 : resultMotos'[j] = before[j + 1]
             /\ \A j \in p .. k - 1 : resultMotos'[j + 1] = before[j + 1]
             /\ \A j \in 1 .. k :
                    (before[j].Rank = x.Rank /\ before[j].Moto.Date = x.Moto.Date)
                        => j <= p /\ resultMotos'[j - 1] = before[j]]_vars

\* a call has placed its item in the middle: after an entry it does not go
\* in front of and ahead of an entry that moved one index to the right
C16_Witness ==
    /\ Lock = {}
    /\ Len(before) >= 2
    /\ Count = Len(before) + 1
    /\ \E p \in 1 .. Len(before) - 1 :
          /\ \A j \in 1 .. p : Prefix[j] = before[j]
          /\ \A j \in p + 1 .. Len(before) : Prefix[j + 1] = before[j]
          /\ StaysBefore(before[p], Prefix[p + 1])
          /\ ~StaysBefore(before[p + 1], Prefix[p + 1])


\* ------------------------------------------------------------------ C17
\* C17: the result array, of capacity N, is never exceeded: Count <= N in
\* every state, and the index i+1 that addItemSorted writes next (in the
\* loop body or at the loop's exit) is always an index of the array.
C17_CapacityRespected ==
    /\ Count <= DataNumber
    /\ DOMAIN resultMotos = 0 .. DataNumber - 1
    /\ \A w \in Workers :
          pc[w] = "sortedLoop" => i[w] + 1 \in 0 .. DataNumber - 1

\* every record of the input qualified and the array is full
C17_Witness ==
    /\ DataNumber >= 3
    /\ Count = DataNumber
    /\ SentinelEnqueued
    /\ resultMotos[DataNumber - 1] # ZeroMotoRank


\* ------------------------------------------------------------------ C18
\* the locks goroutine g holds
Held(g) ==
    { l \in {"InputLock", "OutputLock", "Lock"} :
        \/ l = "InputLock" /\ g \in InputLock
        \/ l = "OutputLock" /\ g \in OutputLock
        \/ l = "Lock" /\ g \in Lock }

NoTwoLocks == \A g \in Goroutines : Cardinality(Held(g)) <= 1

\* a goroutine is about to call Work.Signal() / Space.Signal()
WorkSignalPending ==
    pc[Main] = "addSignal" \/ \E v \in Workers : pc[v] = "removeResignal"

SpaceSignalPending == \E v \in Workers : pc[v] = "removeSignal"

\* a worker woken from Work (or arriving) that has not yet checked WorkCount
WorkerOnItsWay == \E v \in Workers : pc[v] \in {"removeLock", "removeCheck"}

\* C18 as stated: no goroutine holds two locks, and a goroutine blocked in a
\* condition wait for which no signal is about to be issued is the producer
\* on Space with SpaceCount = 0 or a worker on Work with WorkCount = 0.
C18_BlockedOnlyAtZero ==
    /\ NoTwoLocks
    /\ (pc[Main] = "addWait" /\ ~SpaceSignalPending) => SpaceCount = 0
    /\ \A w \in Workers :
          (pc[w] = "removeWait" /\ ~WorkSignalPending) => WorkCount = 0

\* every goroutine that has not finished is blocked in a wait on count 0
OnlyWaitersAtZero ==
    /\ pc[Main] # "exit" => pc[Main] = "addWait" /\ SpaceCount = 0
    /\ \A w \in Workers : pc[w] # "exit" => pc[w] = "removeWait" /\ WorkCount = 0

\* C18 as amended: no goroutine holds two locks; a lock holder can always
\* take its next step; a condition wait is entered only on count 0 with
\* the matching lock held; the producer stays on Space with SpaceCount >= 1
\* only while a Space signal is about to be issued, a worker stays on Work
\* with WorkCount >= 1 only while a Work signal is about to be issued or
\* another worker is on its way to check WorkCount; and a state in which
\* no goroutine can step, other than termination, has only the producer
\* waiting on Space at 0 and workers waiting on Work at 0.
C18_NoLockOrderDeadlock ==
    /\ []NoTwoLocks
    /\ [](Held(Main) # {} => ENABLED Producer)
    /\ [](\A w \in Workers : Held(w) # {} => ENABLED Worker(w))
    /\ [][/\ (pc[Main] # "addWait" /\ pc'[Main] = "addWait")
                => SpaceCount = 0 /\ Main \in InputLock
          /\ \A w \in Workers : (pc[w] # "removeWait" /\ pc'[w] = "removeWait")
                => WorkCount = 0 /\ w \in OutputLock]_vars
    /\ []((pc[Main] = "addWait" /\ SpaceCount >= 1) => SpaceSignalPending)
    /\ []((\E w \in Workers : pc[w] = "removeWait") /\ WorkCount >= 1
            => WorkSignalPending \/ WorkerOnItsWay)
    /\ [](~ENABLED Next =>
            \/ \A g \in Goroutines : pc[g] = "exit"
            \/ OnlyWaitersAtZero)

\* a worker is still on Work with WorkCount >= 1 and no signal is about to
\* be issued: another worker was woken and is on its way, while the
\* producer waits on Space and a lock is held
C18_Witness ==
    /\ \E w \in Workers : pc[w] = "removeWait"
    /\ WorkCount >= 1
    /\ ~WorkSignalPending
    /\ WorkerOnItsWay
    /\ pc[Main] = "addWait"
    /\ OutputLock # {}


\* ------------------------------------------------------------------ C19
\* An input file one of whose records has the manufacturer "<EndOfInput>"
MarkedCatalogue ==
    << Moto("BMW", 2016, 0), Moto(EndOfInput, 1986, 0),
       Moto("Ducati", 2020, 4000), Moto("Aprilia", 2021, 0) >>

\* main started on every input file read from the marked catalogue
MarkedInit == InitWith(MarkedCatalogue, 1 .. Len(MarkedCatalogue))

\* the program on these inputs, under fair scheduling
MarkedSpec == MarkedInit /\ [][Next]_vars /\ WF_vars(Next)

\* fillDataMonitor has returned: every record and the sentinel are enqueued
ProducerDone == pc[Main] \in {"wgWait", "writeData", "exit"}

\* C19: with capacity >= 1 and at least one worker, under fair scheduling,
\* the producer eventually finishes enqueuing all N records and the
\* sentinel, whatever the manufacturer, year and distance of the records.
C19_ProducerProgress ==
    (BufferSize >= 1 /\ WorkerCount >= 1) ~> (ProducerDone /\ SentinelEnqueued)

====
